---- MODULE Spec2Model ----
(***************************************************************************)
(* Check Parser (src/streamlit_app.py): the extraction-and-aggregation     *)
(* pipeline.  Uploaded documents are decomposed into page images, every    *)
(* page is sent to the inference service, the response text is parsed by   *)
(* parse_check, the successful records are totalled and written to the     *)
(* CSV report.                                                             *)
(*                                                                         *)
(* Text is a sequence of characters (one-character strings); a field name  *)
(* or a word of commentary is written as one symbol.  Amounts are counted  *)
(* in thousandths (1204.50 is 1204500), so that sub-cent precision and the *)
(* rounding of the ".2f" format are visible.  A Python value is a pair     *)
(* <<type, payload>>; a dict is a function from key strings to values.     *)
(***************************************************************************)
EXTENDS Integers, Sequences, FiniteSets, TLC

\* ------------------------------------------------------------------ bounds
MaxDocs == 2
MaxPdfPages == 2
MaxPages == 3

\* --------------------------------------------------------- Python values
PyNum(n) == <<"num", n>>
PyStr(s) == <<"str", s>>
PyNone == <<"None", <<>>>>
PyInt(i) == <<"int", i>>
PyDict(d) == <<"dict", d>>
IsNum(v) == v[1] = "num"
IsStr(v) == v[1] = "str"
IsDict(v) == v[1] = "dict"
EmptyDict == <<>>

\* dict.get(k, default)
Get(d, k, default) == IF k \in DOMAIN d THEN d[k] ELSE default

\* d[k] = v
Put(d, k, v) == [x \in (DOMAIN d) \cup {k} |-> IF x = k THEN v ELSE d[x]]

\* ------------------------------------------------------------ characters
Ws == {" ", "\n"}
Digits == <<"0", "1", "2", "3", "4", "5", "6", "7", "8", "9">>
DigitSet == {Digits[i] : i \in 1..10}
DigitVal(c) == (CHOOSE i \in 1..10 : Digits[i] = c) - 1
\* the backtick character is written "~"
Backtick == "~"
Fence == <<Backtick, Backtick, Backtick>>

\* the field names of the schema, as the key strings of the JSON object
Payer == <<"Payer">>
Date == <<"Date">>
Amount == <<"Amount">>
Bank == <<"Bank">>
Check_Number == <<"Check_Number">>
Account == <<"Account">>
Routing == <<"Routing">>
Claim == <<"Claim">>

\* ------------------------------------------------------ string methods
RECURSIVE LStrip(_)
LStrip(s) == IF s # <<>> /\ Head(s) \in Ws THEN LStrip(Tail(s)) ELSE s

RECURSIVE RStrip(_)
RStrip(s) ==
    IF s # <<>> /\ s[Len(s)] \in Ws THEN RStrip(SubSeq(s, 1, Len(s) - 1)) ELSE s

\* str.strip()
Strip(s) == RStrip(LStrip(s))

\* s[i:].startswith(p), i 1-based
StartsWithAt(s, i, p) ==
    /\ i + Len(p) - 1 <= Len(s)
    /\ \A k \in 1..Len(p) : s[i + k - 1] = p[k]

\* str.replace(c, "") for a one-character c
RECURSIVE Remove(_, _)
Remove(s, c) ==
    IF s = <<>> THEN <<>>
    ELSE IF Head(s) = c THEN Remove(Tail(s), c)
    ELSE <<Head(s)>> \o Remove(Tail(s), c)

\* text.split("\n", 1): the pieces around the first newline (one piece if none)
SplitFirstNewline(s) ==
    LET nl == {i \in 1..Len(s) : s[i] = "\n"} IN
    IF nl = {} THEN <<s>>
    ELSE LET i == CHOOSE x \in nl : \A y \in nl : x <= y
         IN  <<SubSeq(s, 1, i - 1), SubSeq(s, i + 1, Len(s))>>

\* text.rsplit(Fence, 1)[0]: the text before the last fence (all of it if none)
BeforeLastFence(s) ==
    LET at == {i \in 1..Len(s) : StartsWithAt(s, i, Fence)} IN
    IF at = {} THEN s
    ELSE LET i == CHOOSE x \in at : \A y \in at : x >= y
         IN  SubSeq(s, 1, i - 1)

\* re.search(r'\{[^{}]*\}', text, re.DOTALL): the leftmost "{" whose next
\* brace character is a "}"; <<>> stands for no match
BraceSearch(s) ==
    LET m == {i \in 1..Len(s) :
                /\ s[i] = "{"
                /\ \E j \in (i + 1)..Len(s) :
                      /\ s[j] = "}"
                      /\ \A k \in (i + 1)..(j - 1) : s[k] \notin {"{", "}"}}
    IN  IF m = {} THEN <<>>
        ELSE LET i == CHOOSE x \in m : \A y \in m : x <= y
                 j == CHOOSE x \in (i + 1)..Len(s) :
                        /\ s[x] = "}"
                        /\ \A y \in (i + 1)..(x - 1) : s[y] # "}"
             IN  SubSeq(s, i, j)

\* ------------------------------------------------------------- numbers
\* the value, in thousandths, of a digit string read as an integer part
RECURSIVE IntPart(_)
IntPart(s) ==
    IF s = <<>> THEN 0
    ELSE 10 * IntPart(SubSeq(s, 1, Len(s) - 1)) + DigitVal(s[Len(s)])

\* the value, in thousandths, of the digits after the decimal point
FracPart(s) ==
    LET d(k) == IF k <= Len(s) THEN DigitVal(s[k]) ELSE 0
    IN  100 * d(1) + 10 * d(2) + d(3)

AllDigits(s) == \A k \in 1..Len(s) : s[k] \in DigitSet

\* the number written as [-]int[.frac], in thousandths
Decimal(s) ==
    LET neg == s # <<>> /\ s[1] = "-"
        u == IF s # <<>> /\ s[1] \in {"-", "+"} THEN Tail(s) ELSE s
        dots == {i \in 1..Len(u) : u[i] = "."}
        p == IF dots = {} THEN Len(u) + 1 ELSE CHOOSE i \in dots : TRUE
        v == 1000 * IntPart(SubSeq(u, 1, p - 1)) + FracPart(SubSeq(u, p + 1, Len(u)))
    IN  IF neg THEN 0 - v ELSE v

\* float(s): [ok, val]; ok = FALSE is ValueError
Float(s0) ==
    LET s == Strip(s0)
        u == IF s # <<>> /\ s[1] \in {"-", "+"} THEN Tail(s) ELSE s
        dots == {i \in 1..Len(u) : u[i] = "."}
        body == Remove(u, ".")
    IN  IF Cardinality(dots) <= 1 /\ body # <<>> /\ AllDigits(body)
        THEN [ok |-> TRUE, val |-> Decimal(s)]
        ELSE [ok |-> FALSE, val |-> 0]

\* f"{x:.2f}": x in thousandths rounded to cents, ties to even
Fmt2(x) ==
    LET a == IF x < 0 THEN 0 - x ELSE x
        q == a \div 10
        r == a % 10
        c == IF r > 5 \/ (r = 5 /\ q % 2 = 1) THEN q + 1 ELSE q
    IN  IF x < 0 THEN 0 - c ELSE c

\* ---------------------------------------------------------- json.loads
SkipWs(s, i) ==
    LET rest == {k \in i..Len(s) : s[k] \notin Ws} IN
    IF rest = {} THEN Len(s) + 1 ELSE CHOOSE k \in rest : \A y \in rest : k <= y

\* the end of the maximal run of digits starting at i (i - 1 if none)
DigitsEnd(s, i) ==
    LET stop == {k \in i..Len(s) : s[k] \notin DigitSet} IN
    IF stop = {} THEN Len(s) ELSE (CHOOSE k \in stop : \A y \in stop : k <= y) - 1

\* the JSON number at i, -?(0|[1-9][0-9]*)(\.[0-9]+)?: the index of its last
\* character, 0 if there is none
NumberEnd(s, i) ==
    LET a == IF i <= Len(s) /\ s[i] = "-" THEN i + 1 ELSE i
        b == IF a <= Len(s) /\ s[a] = "0" THEN a ELSE DigitsEnd(s, a)
        c == IF b + 1 <= Len(s) /\ s[b + 1] = "." THEN DigitsEnd(s, b + 2) ELSE b
    IN  IF b < a THEN 0 ELSE IF c > b + 1 THEN c ELSE b

\* the closing quote of the string whose first character is at i, 0 if none
StringEnd(s, i) ==
    LET q == {k \in i..Len(s) : s[k] = "\""} IN
    IF q = {} THEN 0 ELSE CHOOSE k \in q : \A y \in q : k <= y

JsonFail == [ok |-> FALSE, val |-> PyNone, next |-> 0]
JsonOk(v, n) == [ok |-> TRUE, val |-> v, next |-> n]

\* the JSON value at i and the index after it; an object's members are read
\* into acc, a later duplicate key replacing an earlier one
RECURSIVE ParseValue(_, _), ParseMembers(_, _, _)
ParseValue(s, i0) ==
    LET i == SkipWs(s, i0) IN
    IF i > Len(s) THEN JsonFail
    ELSE IF s[i] = "{" THEN
        LET j == SkipWs(s, i + 1) IN
        IF j <= Len(s) /\ s[j] = "}" THEN JsonOk(PyDict(EmptyDict), j + 1)
        ELSE ParseMembers(s, j, EmptyDict)
    ELSE IF s[i] = "\"" THEN
        LET e == StringEnd(s, i + 1) IN
        IF e = 0 THEN JsonFail ELSE JsonOk(PyStr(SubSeq(s, i + 1, e - 1)), e + 1)
    ELSE IF s[i] \in DigitSet \cup {"-"} THEN
        LET e == NumberEnd(s, i) IN
        IF e = 0 THEN JsonFail ELSE JsonOk(PyNum(Decimal(SubSeq(s, i, e))), e + 1)
    ELSE IF StartsWithAt(s, i, <<"n", "u", "l", "l">>) THEN JsonOk(PyNone, i + 4)
    ELSE JsonFail

ParseMembers(s, i, acc) ==
    IF i > Len(s) \/ s[i] # "\"" THEN JsonFail
    ELSE LET e == StringEnd(s, i + 1) IN
         IF e = 0 THEN JsonFail
         ELSE LET key == SubSeq(s, i + 1, e - 1)
                  c == SkipWs(s, e + 1)
              IN  IF c > Len(s) \/ s[c] # ":" THEN JsonFail
                  ELSE LET v == ParseValue(s, c + 1) IN
                       IF ~v.ok THEN JsonFail
                       ELSE LET n == SkipWs(s, v.next)
                                d == Put(acc, key, v.val)
                            IN  IF n > Len(s) THEN JsonFail
                                ELSE IF s[n] = "}" THEN JsonOk(PyDict(d), n + 1)
                                ELSE IF s[n] = "," THEN ParseMembers(s, SkipWs(s, n + 1), d)
                                ELSE JsonFail

\* json.loads(text): [ok, val]; ok = FALSE is JSONDecodeError
JsonLoads(s) ==
    LET r == ParseValue(s, 1) IN
    IF r.ok /\ SkipWs(s, r.next) > Len(s) THEN [ok |-> TRUE, val |-> r.val]
    ELSE [ok |-> FALSE, val |-> PyNone]

\* --------------------------------------------------------- parse_check
Raise(e) == [ok |-> FALSE, err |-> e, data |-> EmptyDict]
Return(d) == [ok |-> TRUE, err |-> "", data |-> d]

\* lines 150-155: strip, then remove the markdown fencing; [ok, text]
StripFence(raw) ==
    LET text == Strip(raw) IN
    IF StartsWithAt(text, 1, Fence)
    THEN LET parts == SplitFirstNewline(text) IN
         IF Len(parts) < 2 THEN [ok |-> FALSE, text |-> text]
         ELSE [ok |-> TRUE, text |-> Strip(BeforeLastFence(parts[2]))]
    ELSE [ok |-> TRUE, text |-> text]

\* lines 156-159: the regex match if there is one, else the text itself
FindObject(text) ==
    LET match == BraceSearch(text) IN
    IF match # <<>> THEN match ELSE text

\* CoerceAmount with the check number, when all digits, turned into an int
CoerceAmount_IntCheckNumber(data) ==
    LET a == Get(data, Amount, PyNone)
        c == Get(data, Check_Number, PyNone)
        d == IF IsStr(c) /\ c[2] # <<>> /\ AllDigits(c[2])
             THEN Put(data, Check_Number, PyInt(IntPart(c[2]))) ELSE data
    IN  IF IsStr(a)
        THEN LET f == Float(Remove(Remove(a[2], ","), "$")) IN
             IF f.ok THEN Return(Put(d, Amount, PyNum(f.val))) ELSE Raise("ValueError")
        ELSE Return(d)

\* lines 161-163: Amount, when a str, becomes float(Amount without "," and "$")
CoerceAmount(data) ==
    LET a == Get(data, Amount, PyNone) IN
    IF IsStr(a)
    THEN LET f == Float(Remove(Remove(a[2], ","), "$")) IN
         IF f.ok THEN Return(Put(data, Amount, PyNum(f.val))) ELSE Raise("ValueError")
    ELSE Return(data)

\* the result of parse_check on what the messages.create call produced:
\* resp.raises if the call failed, else resp.text is response.content[0].text
parse_check(resp) ==
    IF resp.raises THEN Raise("APIError")
    ELSE LET f == StripFence(resp.text) IN
         IF ~f.ok THEN Raise("IndexError")
         ELSE LET j == JsonLoads(FindObject(f.text)) IN
              IF ~j.ok THEN Raise("JSONDecodeError")
              ELSE IF ~IsDict(j.val) THEN Raise("AttributeError")
              ELSE CoerceAmount(j.val[2])

\* ------------------------------------------------- inference service
\* the text of a JSON string, of a member and of an object with the given
\* members, written the way the prompt asks for it
Quoted(s) == <<"\"">> \o s \o <<"\"">>
Member(k, v) == Quoted(k) \o <<":", " ">> \o v
RECURSIVE Join(_)
Join(ms) ==
    IF ms = <<>> THEN <<>>
    ELSE IF Len(ms) = 1 THEN ms[1]
    ELSE ms[1] \o <<",", " ">> \o Join(Tail(ms))
Object(ms) == <<"{">> \o Join(ms) \o <<"}">>

Text(t) == [raises |-> FALSE, text |-> t]
ChkNo == <<"0", "0", "2", "3", "1">>

\* what one messages.create call can produce: a failure of the call, or a
\* response text
Responses == <<
    \* 1: the call fails (network, auth, quota)
    [raises |-> TRUE, text |-> <<>>],
    \* 2: the object the prompt asks for, all eight fields
    Text(Object(<<Member(Payer, Quoted(<<"Aetna">>)),
                  Member(Date, Quoted(<<"01/02/2024">>)),
                  Member(Amount, <<"1", "2", "0", "4", ".", "5", "0">>),
                  Member(Bank, Quoted(<<"Citibank">>)),
                  Member(Check_Number, Quoted(ChkNo)),
                  Member(Account, Quoted(<<>>)),
                  Member(Routing, Quoted(<<>>)),
                  Member(Claim, Quoted(<<>>))>>)),
    \* 3: Amount as the text "$1,204.50"
    Text(Object(<<Member(Amount, Quoted(<<"$", "1", ",", "2", "0", "4", ".", "5", "0">>)),
                  Member(Check_Number, Quoted(ChkNo))>>)),
    \* 4: Amount as text that is no number
    Text(Object(<<Member(Amount, Quoted(<<"N", "/", "A">>)),
                  Member(Check_Number, Quoted(<<"7">>))>>)),
    \* 5: Amount null
    Text(Object(<<Member(Amount, <<"n", "u", "l", "l">>),
                  Member(Check_Number, Quoted(<<"7">>))>>)),
    \* 6: no Amount
    Text(Object(<<Member(Check_Number, Quoted(ChkNo))>>)),
    \* 7: no JSON at all
    Text(<<"Sorry", " ", "unreadable">>),
    \* 8: JSON, but not an object
    Text(<<"1", "7">>),
    \* 9: commentary around the object
    Text(<<"Here", ":", " ">>
         \o Object(<<Member(Amount, <<"1", "0", ".", "2", "5">>),
                     Member(Check_Number, Quoted(<<"0", "4", "2">>))>>)
         \o <<" ", "Done">>),
    \* 10: an object inside the object
    Text(Object(<<Member(Payer, Object(<<Member(Claim, Quoted(<<"c">>))>>)),
                  Member(Amount, <<"5">>),
                  Member(Check_Number, Quoted(ChkNo))>>)),
    \* 11: fenced, the fence markers on their own lines, with a language tag
    Text(Fence \o <<"json", "\n">>
         \o Object(<<Member(Amount, <<"2", "0">>),
                     Member(Check_Number, Quoted(<<"9">>))>>)
         \o <<"\n">> \o Fence),
    \* 12: fenced, the fence markers on the line of the object
    Text(Fence
         \o Object(<<Member(Amount, <<"2", "0">>),
                     Member(Check_Number, Quoted(<<"9">>))>>)
         \o Fence),
    \* 13: an Amount below one cent
    Text(Object(<<Member(Amount, <<"0", ".", "0", "0", "4">>),
                  Member(Check_Number, Quoted(<<"0", "4", "2">>))>>)),
    \* 14: a closing brace inside a string
    Text(Object(<<Member(Payer, Quoted(<<"a", "}", "b">>)),
                  Member(Amount, <<"5">>)>>))
  >>

\* what parse_check does with each of them: Extracted[k] is
\* parse_check(Responses[k]), computed once
Extracted == [k \in DOMAIN Responses |-> parse_check(Responses[k])]

\* ------------------------------------------------------------- uploads
\* an uploaded file: its declared type, the number of pages a PDF has, and
\* whether its bytes can be decoded (by convert_from_bytes or Image.open)
Pdf(n, ok) == [type |-> "application/pdf", pages |-> n, readable |-> ok]
Img(ok) == [type |-> "image/png", pages |-> 1, readable |-> ok]
FileKinds ==
    {Pdf(n, TRUE) : n \in 1..MaxPdfPages} \cup {Pdf(1, FALSE), Img(TRUE), Img(FALSE)}

RECURSIVE PageCount(_)
PageCount(fs) == IF fs = <<>> THEN 0 ELSE Head(fs).pages + PageCount(Tail(fs))

Uploads ==
    {fs \in UNION {[1..n -> FileKinds] : n \in 1..MaxDocs} : PageCount(fs) <= MaxPages}

\* the images one file contributes, each tagged with the file and page it is
\* (lines 119-126)
FileImages(fs, d) ==
    [p \in 1..fs[d].pages |-> [doc |-> d, page |-> p, media_type |-> "image/png"]]

\* get_images_from_uploads: [ok, images]; ok = FALSE when convert_from_bytes
\* raises on some PDF, which ends the whole call
RECURSIVE Flatten(_, _)
Flatten(fs, d) == IF d > Len(fs) THEN <<>> ELSE FileImages(fs, d) \o Flatten(fs, d + 1)
get_images_from_uploads(fs) ==
    IF \E d \in 1..Len(fs) : fs[d].type = "application/pdf" /\ ~fs[d].readable
    THEN [ok |-> FALSE, images |-> <<>>]
    ELSE [ok |-> TRUE, images |-> Flatten(fs, 1)]

\* -------------------------------------------------------------- reports
Headers ==
    <<PyStr(<<"#">>), PyStr(<<"Payer">>), PyStr(<<"Date">>), PyStr(<<"Amount">>),
      PyStr(<<"Bank">>), PyStr(<<"Check Number">>), PyStr(<<"Account #">>),
      PyStr(<<"Routing #">>), PyStr(<<"Claim #">>)>>
Empty == PyStr(<<>>)
\* the text of a number formatted with ".2f": its value in cents
Money(x) == <<".2f", Fmt2(x)>>

\* the Amount a record is totalled with
AmountOf(ck) == Get(ck, Amount, PyNum(0))

\* sum(c.get("Amount", 0) for c in checks): [ok, val]; ok = FALSE is the
\* TypeError of adding a value that is no number
RECURSIVE SumAmounts(_)
SumAmounts(cs) ==
    IF cs = <<>> THEN [ok |-> TRUE, val |-> 0]
    ELSE LET a == AmountOf(cs[Len(cs)])
             r == SumAmounts(SubSeq(cs, 1, Len(cs) - 1))
         IN  IF r.ok /\ IsNum(a) THEN [ok |-> TRUE, val |-> r.val + a[2]]
             ELSE [ok |-> FALSE, val |-> 0]

\* lines 231-236: the row of record i
CsvRow(i, ck) ==
    <<PyInt(i), Get(ck, Payer, Empty), Get(ck, Date, Empty), Money(AmountOf(ck)[2]),
      Get(ck, Bank, Empty), Get(ck, Check_Number, Empty), Get(ck, Account, Empty),
      Get(ck, Routing, Empty), Get(ck, Claim, Empty)>>

\* line 238
TotalRow(total) ==
    <<Empty, Empty, PyStr(<<"TOTAL">>), Money(total), Empty, Empty, Empty, Empty, Empty>>

\* generate_csv(checks): the rows written; called with numeric amounts only,
\* the totalling of line 268 having passed
generate_csv(cs) ==
    <<Headers>> \o [i \in 1..Len(cs) |-> CsvRow(i, cs[i])]
                \o <<TotalRow(SumAmounts(cs).val)>>

\* XlsxRow with ck.get(key) in place of ck.get(key, default)
XlsxRow_NoDefault(i, ck) ==
    <<PyInt(i), Get(ck, Payer, PyNone), Get(ck, Date, PyNone), Get(ck, Amount, PyNone),
      Get(ck, Bank, PyNone), Get(ck, Check_Number, PyNone), Get(ck, Account, PyNone),
      Get(ck, Routing, PyNone), Get(ck, Claim, PyNone)>>

\* lines 191-195: the values of row i of the worksheet
XlsxRow(i, ck) ==
    <<PyInt(i), Get(ck, Payer, Empty), Get(ck, Date, Empty), AmountOf(ck),
      Get(ck, Bank, Empty), Get(ck, Check_Number, Empty), Get(ck, Account, Empty),
      Get(ck, Routing, Empty), Get(ck, Claim, Empty)>>

\* generate_xlsx(checks): the header, the data rows and the total row, whose
\* amount is the formula =SUM(D2:D{tr - 1})
generate_xlsx(cs) ==
    <<Headers>> \o [i \in 1..Len(cs) |-> XlsxRow(i, cs[i])]
                \o <<<<Empty, Empty, PyStr(<<"TOTAL">>), <<"=SUM", Len(cs) + 1>>>>>>

\* ----------------------------------------------------------------- state
VARIABLES
    files,      \* uploaded_files
    pc,         \* "upload", "parsing", "done", "crashed" (uncaught exception)
    images,     \* the list get_images_from_uploads returned
    idx,        \* pages the loop of line 255 has been through
    calls,      \* for each page so far, which of Responses its messages.create call produced
    checks,     \* the records parse_check returned
    errors,     \* the st.error messages of line 261: page number and exception
    reported,   \* whether the block of lines 265-303 ran to its end
    total,      \* line 268 (0 while not computed)
    csv_data,   \* line 295 (<<>> while not generated)
    xlsx_rows   \* line 286 (<<>> while not generated)

vars == <<files, pc, images, idx, calls, checks, errors, reported, total, csv_data, xlsx_rows>>

\* files are uploaded and the API key entered: "Parse Checks" can be clicked
Init ==
    /\ files \in Uploads
    /\ pc = "upload"
    /\ images = <<>>
    /\ idx = 0
    /\ calls = <<>>
    /\ checks = <<>>
    /\ errors = <<>>
    /\ reported = FALSE
    /\ total = 0
    /\ csv_data = <<>>
    /\ xlsx_rows = <<>>

\* lines 244-252: the click, then the conversion of the files to images
Convert ==
    /\ pc = "upload"
    /\ LET r == get_images_from_uploads(files) IN
       /\ pc' = IF r.ok THEN "parsing" ELSE "crashed"
       /\ images' = r.images
    /\ UNCHANGED <<files, idx, calls, checks, errors, reported, total, csv_data, xlsx_rows>>

\* ParsePage without the try/except: the exception of a page ends the run
ParsePage_AbortOnError ==
    /\ pc = "parsing"
    /\ idx < Len(images)
    /\ \E k \in DOMAIN Responses :
          LET r == Extracted[k] IN
          /\ calls' = Append(calls, k)
          /\ checks' = IF r.ok THEN Append(checks, r.data) ELSE checks
          /\ pc' = IF r.ok THEN pc ELSE "crashed"
    /\ idx' = idx + 1
    /\ UNCHANGED <<files, images, errors, reported, total, csv_data, xlsx_rows>>

\* lines 255-261: one turn of the loop
ParsePage ==
    /\ pc = "parsing"
    /\ idx < Len(images)
    /\ \E k \in DOMAIN Responses :
          LET r == Extracted[k] IN
          /\ calls' = Append(calls, k)
          /\ checks' = IF r.ok THEN Append(checks, r.data) ELSE checks
          /\ errors' = IF r.ok THEN errors
                       ELSE Append(errors, [page |-> idx + 1, err |-> r.err])
    /\ idx' = idx + 1
    /\ UNCHANGED <<files, pc, images, reported, total, csv_data, xlsx_rows>>

\* lines 263-303: after the loop, the total and the reports if there are checks
Report ==
    /\ pc = "parsing"
    /\ idx = Len(images)
    /\ IF checks = <<>>
       THEN /\ pc' = "done"
            /\ UNCHANGED <<reported, total, csv_data, xlsx_rows>>
       ELSE LET t == SumAmounts(checks) IN
            IF t.ok
            THEN /\ pc' = "done"
                 /\ reported' = TRUE
                 /\ total' = t.val
                 /\ xlsx_rows' = generate_xlsx(checks)
                 /\ csv_data' = generate_csv(checks)
            ELSE /\ pc' = "crashed"
                 /\ UNCHANGED <<reported, total, csv_data, xlsx_rows>>
    /\ UNCHANGED <<files, images, idx, calls, checks, errors>>

Next == Convert \/ ParsePage \/ Report

Spec == Init /\ [][Next]_vars

\* ------------------------------------------------- vocabulary of claims
Ended == pc \in {"done", "crashed"} /\ images # <<>>

\* the pages submitted so far whose extraction returned a record / raised
\* what the call of page i produced, and what parse_check made of it
Response(i) == Responses[calls[i]]
Outcome(i) == Extracted[calls[i]]

RECURSIVE PagesWhere(_, _)
PagesWhere(k, good) ==
    IF k = 0 THEN <<>>
    ELSE IF Outcome(k).ok = good THEN Append(PagesWhere(k - 1, good), k)
    ELSE PagesWhere(k - 1, good)
Succeeded == PagesWhere(Len(calls), TRUE)
Failed == PagesWhere(Len(calls), FALSE)

Contains(s, p) == \E i \in 1..Len(s) : StartsWithAt(s, i, p)
NullAmount(resp) ==
    ~resp.raises /\ Contains(resp.text, Member(Amount, <<"n", "u", "l", "l">>))

\* the pages of the documents that can be decomposed (an image that cannot
\* be decoded is still one page, sent as raw bytes)
RECURSIVE DecomposablePages(_)
DecomposablePages(fs) ==
    IF fs = <<>> THEN 0
    ELSE (IF Head(fs).type = "application/pdf" /\ ~Head(fs).readable
          THEN 0 ELSE Head(fs).pages) + DecomposablePages(Tail(fs))

\* the sum of the amount cells of the data rows of a report, in cents
RECURSIVE CellSum(_, _)
CellSum(rows, n) == IF n < 2 THEN 0 ELSE rows[n][4][2] + CellSum(rows, n - 1)

\* the string written after "Check_Number": in the text that was parsed
\* (<<"?">> if there is none)
WrittenCheckNumber(resp) ==
    LET t == FindObject(StripFence(resp.text).text)
        lead == Quoted(Check_Number) \o <<":", " ", "\"">>
        at == {i \in 1..Len(t) : StartsWithAt(t, i, lead)}
    IN  IF at = {} THEN <<"?">>
        ELSE LET i == (CHOOSE x \in at : TRUE) + Len(lead)
                 e == CHOOSE x \in i..Len(t) :
                        t[x] = "\"" /\ \A y \in i..(x - 1) : t[y] # "\""
             IN  SubSeq(t, i, e - 1)

Written == [k \in DOMAIN Responses |-> WrittenCheckNumber(Responses[k])]

\* --------------------------------------------------------------- claims

\* C1: the result has one entry per page, and the entry at position i is the
\* outcome of page i: an error carrying page number i if the page failed, the
\* record at position i of the result (row i of the report) if it succeeded.
C1_EntryPerPageAtItsIndex ==
    pc = "done" =>
        /\ Len(checks) + Len(errors) = PageCount(files)
        /\ \A i \in 1..Len(calls) :
              LET r == Outcome(i) IN
              IF r.ok THEN i <= Len(checks) /\ checks[i] = r.data
              ELSE \E j \in 1..Len(errors) : errors[j].page = i

C3_TotalIsSum ==
    Ended => reported /\ total = SumAmounts(checks).val

\* C4: every record parse_check returned has a numeric Amount (a record
\* without Amount counting as 0).
C4_AmountNumeric ==
    \A i \in 1..Len(checks) : IsNum(AmountOf(checks[i]))

\* C5: a response whose Amount is null ends as an error of its page, and no
\* response makes the run end with an uncaught exception after the loop.
C5_SchemaViolationIsPageError ==
    /\ \A k \in 1..Len(calls) : NullAmount(Response(k)) => ~Outcome(k).ok
    /\ images # <<>> => pc # "crashed"

\* C6: a document that cannot be decomposed loses its own pages only: when the
\* run has ended, every page of every other document has been submitted.
C6_OtherDocumentsProcessed ==
    pc \in {"done", "crashed"} => Len(calls) = DecomposablePages(files)

\* C7: the CSV of N records has N + 2 rows, and the amount cell of the total
\* row is the sum of the amount cells of the data rows as written.
C7_TotalCellIsSumOfCells ==
    reported =>
        /\ Len(csv_data) = Len(checks) + 2
        /\ csv_data[Len(csv_data)][4][2] = CellSum(csv_data, Len(csv_data) - 1)

\* C8: a run in which every page failed still ends with a report, the empty
\* one: the header and a total of 0.
C8_EmptyReport ==
    (pc = "done" /\ checks = <<>>) => reported /\ csv_data = <<Headers, TotalRow(0)>>

\* C9: the check number of a record is the string written in the parsed
\* response, character for character, in the record and in the rows of both
\* reports.
C9_CheckNumberVerbatim ==
    \A j \in 1..Len(checks) :
        LET w == Written[calls[Succeeded[j]]] IN
        w # <<"?">> =>
            /\ Get(checks[j], Check_Number, Empty) = PyStr(w)
            /\ reported => /\ csv_data[j + 1][6] = PyStr(w)
                           /\ xlsx_rows[j + 1][6] = PyStr(w)

\* C9 witness: the check number "00231" is in the record and in the reports
\* with its leading zeros.
C9_Witness ==
    /\ reported
    /\ \E j \in 1..Len(checks) :
          /\ Written[calls[Succeeded[j]]] = ChkNo
          /\ checks[j][Check_Number] = PyStr(<<"0", "0", "2", "3", "1">>)
          /\ csv_data[j + 1][6] = PyStr(<<"0", "0", "2", "3", "1">>)
          /\ xlsx_rows[j + 1][6] = PyStr(<<"0", "0", "2", "3", "1">>)

\* C10: when the response text (fencing removed) is a valid JSON object, the
\* object parsed is that outermost object, also when it has objects or braces
\* inside: the page succeeds and its record is that object.
C10_OutermostObjectParsed ==
    \A j \in 1..Len(calls) :
        LET f == StripFence(Response(j).text)
            whole == JsonLoads(f.text)
        IN  (~Response(j).raises /\ f.ok /\ whole.ok /\ IsDict(whole.val)) =>
                Outcome(j) = CoerceAmount(whole.val[2])

\* the text inside the fence of a response that is wrapped in a fenced code
\* block, the language tag dropped (<<>> if the response is not so wrapped)
Unfenced(resp) ==
    LET t == Strip(resp.text) IN
    IF Len(t) >= 6 /\ StartsWithAt(t, 1, Fence) /\ StartsWithAt(t, Len(t) - 2, Fence)
    THEN LET inner == Strip(SubSeq(t, 4, Len(t) - 3)) IN
         IF inner # <<>> /\ Head(inner) = "json" THEN Strip(Tail(inner)) ELSE inner
    ELSE <<>>

\* for each of Responses that is a fenced valid JSON object, what parse_check
\* returns for the object without the fence; for the others, what it returns
\* for the response itself
UnfencedOutcome ==
    [k \in DOMAIN Responses |->
        LET o == Unfenced(Responses[k])
            v == JsonLoads(o)
        IN  IF o # <<>> /\ v.ok /\ IsDict(v.val) THEN parse_check(Text(o))
            ELSE parse_check(Responses[k])]

\* C11: a valid JSON object wrapped in a fenced code block, with or without
\* a language tag, the fence markers on their own lines or on the line of the
\* object, gives the record the object gives without its fence.
C11_FenceStripped ==
    \A j \in 1..Len(calls) : Outcome(j) = UnfencedOutcome[calls[j]]

\* the eight fields of the schema, in the order of the report columns 2 to 9
Fields == <<Payer, Date, Amount, Bank, Check_Number, Account, Routing, Claim>>
DefaultOf(f) == IF f = Amount THEN PyNum(0) ELSE Empty
DefaultCell(f) == IF f = Amount THEN Money(0) ELSE Empty

\* for each of Responses, the fields (by column) whose key is not written in
\* the text that was parsed
AbsentFields ==
    [k \in DOMAIN Responses |->
        LET t == FindObject(StripFence(Responses[k].text).text)
        IN  {i \in 1..Len(Fields) : ~Contains(t, Quoted(Fields[i]) \o <<":">>)}]

====
